---- MODULE Spec2Model ----
(***************************************************************************)
(* Model of the bountyforge program (programs/bountyforge): the bounty     *)
(* lifecycle Open -> Submitted -> Settled, its escrow token account and    *)
(* the per-agent reputation record.                                        *)
(*                                                                         *)
(* Every instruction is one atomic transaction: the account constraints    *)
(* of its Accounts struct are validated, the handler runs, and the ledger  *)
(* keeps the handler's writes only when it returned Ok.                    *)
(***************************************************************************)
EXTENDS Integers, Sequences, FiniteSets, TLC

(***************************************************************************)
(* Bounds of the model.                                                    *)
(***************************************************************************)
\* bounty ids are 1..MaxBounty (u64 in the program)
MaxBounty == 2
\* solution ids are 1..MaxSolution (u64 in the program)
MaxSolution == 2
\* rewards offered are 0..MaxReward
MaxReward == 1
\* stand-in for u64::MAX, the largest value of score, successful_bounties,
\* total_earned and of a token amount
U64Max == 3

Keys == {"k1", "k2"}
\* Pubkey::default(), the all-zero key; nobody can sign with it
DefaultPubkey == "default"
BountyIds == 1..MaxBounty
SolutionIds == 1..MaxSolution
Rewards == 0..MaxReward
\* stand-ins for 32-byte solution hashes
Hashes == {"H1", "H2"}
BountyTypes == {"WalletIntelligence", "TokenScreening"}

\* token balances of the wallets before any bounty is posted
\* (their sum is the mint's supply, itself a u64)
InitWallets == [k \in Keys |-> IF k = "k1" THEN 2 ELSE 1]

(***************************************************************************)
(* Bounty descriptions and the oracle gate's string test.                  *)
(***************************************************************************)
UpperCase == <<"A","B","C","D","E","F","G","H","I","J","K","L","M",
               "N","O","P","Q","R","S","T","U","V","W","X","Y","Z">>
LowerCase == <<"a","b","c","d","e","f","g","h","i","j","k","l","m",
               "n","o","p","q","r","s","t","u","v","w","x","y","z">>

char_to_lowercase(c) ==
    IF \E i \in 1..26 : UpperCase[i] = c
    THEN LowerCase[CHOOSE i \in 1..26 : UpperCase[i] = c]
    ELSE c

to_lowercase(s) == [i \in 1..Len(s) |-> char_to_lowercase(s[i])]

contains(s, t) ==
    \E i \in 1..(Len(s) - Len(t) + 1) : SubSeq(s, i, i + Len(t) - 1) = t

DescScan == <<"s","c","a","n">>
DescPrice == <<"B","T","C"," ","P","r","i","c","e">>
DescOracle == <<"O","R","A","C","L","E"," ","f","e","e","d">>
DescSwitchboard == <<"v","i","a"," ","S","w","i","t","c","h","B","o","a","r","d">>
Descriptions == {DescScan, DescPrice, DescOracle, DescSwitchboard}

requires_oracle(description) ==
    LET description_lower == to_lowercase(description)
    IN  \/ contains(description_lower, <<"o","r","a","c","l","e">>)
        \/ contains(description_lower,
                    <<"s","w","i","t","c","h","b","o","a","r","d">>)
        \/ contains(description_lower, <<"p","r","i","c","e">>)

(***************************************************************************)
(* Ledger state.                                                           *)
(***************************************************************************)
VARIABLES
    bounties,      \* Bounty accounts, by bounty id (the seed of their address)
    attestations,  \* Attestation accounts, by solution id
    reputations,   \* Reputation accounts, by agent (the seed of their address)
    tokens,        \* balance of each initialized token account, by address
    accepted,      \* history: per bounty, the signers of the SubmitSolution
                   \* calls that committed on it, in order
    done,          \* history: the transactions that committed so far
    res            \* history: the last transaction and how it ended

vars == <<bounties, attestations, reputations, tokens, accepted, done, res>>

Ok == "Ok"
NoneHash == <<>>
Some(h) == <<h>>

\* the token account of a key
wallet(k) == <<"wallet", k>>
\* the address derived from (bounty account, mint): the bounty's escrow
get_associated_token_address(bounty_id) == <<"ata", bounty_id>>
EscrowAddrs == {get_associated_token_address(b) : b \in BountyIds}

\* the accounts a handler reads and writes
Ledger ==
    [bounties |-> bounties, attestations |-> attestations,
     reputations |-> reputations, tokens |-> tokens]

Result(e, L) == [err |-> e, ledger |-> L]

\* f with key k set to v, k added to its domain when new
Put(f, k, v) == [x \in (DOMAIN f) \cup {k} |-> IF x = k THEN v ELSE f[x]]

(***************************************************************************)
(* The token program's transfer between two initialized token accounts:    *)
(* it fails when the source holds less than the amount.                    *)
(***************************************************************************)
\* a transfer that credits the destination without debiting the source
transfer_NoDebit(L, from, to, amount) ==
    IF L.tokens[from] < amount
    THEN Result("InsufficientFunds", L)
    ELSE Result(Ok, [L EXCEPT !.tokens[to] = @ + amount])

transfer(L, from, to, amount) ==
    IF L.tokens[from] < amount
    THEN Result("InsufficientFunds", L)
    ELSE IF from = to THEN Result(Ok, L)
    ELSE Result(Ok, [L EXCEPT !.tokens[from] = @ - amount,
                              !.tokens[to] = @ + amount])

(***************************************************************************)
(* post_bounty                                                             *)
(***************************************************************************)
\* the account constraints of PostBounty: init of the bounty account, and
\* the owner of the token account that pays
\* PostBountyAccounts accepting a bounty account that is already initialized
PostBountyAccounts_NoInit(L, creator, bounty_id, token_owner) ==
    IF token_owner # creator THEN "ConstraintRaw"
    ELSE Ok

PostBountyAccounts(L, creator, bounty_id, token_owner) ==
    IF bounty_id \in DOMAIN L.bounties THEN "AccountAlreadyInUse"
    ELSE IF token_owner # creator THEN "ConstraintRaw"
    ELSE Ok

\* post_bounty dropping the result of the transfer instead of returning it
post_bounty_IgnoreTransfer(L, creator, bounty_id, bounty_type, description, reward, escrow) ==
    LET L1 == [L EXCEPT !.bounties = Put(@, bounty_id,
                   [id |-> bounty_id,
                    bounty_type |-> bounty_type,
                    description |-> description,
                    reward |-> reward,
                    solution_hash |-> NoneHash,
                    status |-> "Open",
                    creator |-> creator])]
        expected_ata == get_associated_token_address(bounty_id)
    IN  IF escrow # expected_ata THEN Result("ConstraintTokenMint", L1)
        ELSE IF escrow \notin DOMAIN L1.tokens
             THEN Result("AccountNotInitialized", L1)
        ELSE Result(Ok, transfer(L1, wallet(creator), escrow, reward).ledger)

post_bounty(L, creator, bounty_id, bounty_type, description, reward, escrow) ==
    LET L1 == [L EXCEPT !.bounties = Put(@, bounty_id,
                   [id |-> bounty_id,
                    bounty_type |-> bounty_type,
                    description |-> description,
                    reward |-> reward,
                    solution_hash |-> NoneHash,
                    status |-> "Open",
                    creator |-> creator])]
        expected_ata == get_associated_token_address(bounty_id)
    IN  IF escrow # expected_ata THEN Result("ConstraintTokenMint", L1)
        ELSE IF escrow \notin DOMAIN L1.tokens
             THEN Result("AccountNotInitialized", L1)
        ELSE transfer(L1, wallet(creator), escrow, reward)

(***************************************************************************)
(* submit_solution                                                         *)
(***************************************************************************)
\* what init_if_needed hands to the handler: the stored record, or a newly
\* allocated, zeroed one
ZeroReputation ==
    [agent |-> DefaultPubkey, score |-> 0, successful_bounties |-> 0,
     failed_bounties |-> 0, total_earned |-> 0]

LoadReputation(L, agent) ==
    IF agent \in DOMAIN L.reputations THEN L.reputations[agent]
    ELSE ZeroReputation

\* SubmitSolutionAccounts rejecting only a Settled bounty
SubmitSolutionAccounts_SettledOnly(L, agent, b, att) ==
    IF b \notin DOMAIN L.bounties \/ att \notin DOMAIN L.attestations
    THEN "AccountNotInitialized"
    ELSE IF L.bounties[b].status = "Settled" THEN "BountyNotOpen"
    ELSE IF L.attestations[att].agent # agent
         THEN "AttestationOwnerMismatch"
    ELSE Ok

\* SubmitSolutionAccounts without the two constraints on the bounty
SubmitSolutionAccounts_NoBountyConstraints(L, agent, b, att) ==
    IF b \notin DOMAIN L.bounties \/ att \notin DOMAIN L.attestations
    THEN "AccountNotInitialized"
    ELSE IF L.attestations[att].agent # agent
         THEN "AttestationOwnerMismatch"
    ELSE Ok

\* SubmitSolutionAccounts without the constraint on the attestation
SubmitSolutionAccounts_NoOwnerCheck(L, agent, b, att) ==
    IF b \notin DOMAIN L.bounties \/ att \notin DOMAIN L.attestations
    THEN "AccountNotInitialized"
    ELSE IF L.bounties[b].status # "Open" THEN "BountyNotOpen"
    ELSE IF L.bounties[b].solution_hash # NoneHash
         THEN "BountyAlreadySubmitted"
    ELSE Ok

\* the account constraints of SubmitSolution
SubmitSolutionAccounts(L, agent, b, att) ==
    IF b \notin DOMAIN L.bounties \/ att \notin DOMAIN L.attestations
    THEN "AccountNotInitialized"
    ELSE IF L.bounties[b].status # "Open" THEN "BountyNotOpen"
    ELSE IF L.bounties[b].solution_hash # NoneHash
         THEN "BountyAlreadySubmitted"
    ELSE IF L.attestations[att].agent # agent
         THEN "AttestationOwnerMismatch"
    ELSE Ok

\* oracle is "None" (no account passed), "Empty" (an account without data)
\* or "Data" (an account with data)
OracleRefs == {"None", "Empty", "Data"}

\* submit_solution without the comparison of the two hashes
submit_solution_NoHashCheck(L, agent, b, att, oracle, solution_hash) ==
    LET L1 == [L EXCEPT !.bounties[b].solution_hash = Some(solution_hash),
                        !.bounties[b].status = "Submitted"]
        reputation == LoadReputation(L, agent)
    IN  IF requires_oracle(L.bounties[b].description)
           /\ oracle \in {"None", "Empty"}
        THEN Result("OracleVerificationFailed", L)
        ELSE IF reputation.agent = DefaultPubkey
             THEN Result(Ok, [L1 EXCEPT !.reputations = Put(@, agent,
                        [agent |-> agent, score |-> 1,
                         successful_bounties |-> 0, failed_bounties |-> 0,
                         total_earned |-> 0])])
        ELSE IF reputation.score + 1 > U64Max
             THEN Result("ReputationScoreOverflow", L1)
        ELSE Result(Ok, [L1 EXCEPT !.reputations =
                        Put(@, agent, [reputation EXCEPT !.score = @ + 1])])

\* submit_solution creating the reputation record with score 0 and adding 1
\* only to a record that exists
submit_solution_ScoreZero(L, agent, b, att, oracle, solution_hash) ==
    LET L1 == [L EXCEPT !.bounties[b].solution_hash = Some(solution_hash),
                        !.bounties[b].status = "Submitted"]
        reputation == LoadReputation(L, agent)
    IN  IF L.attestations[att].solution_hash # solution_hash
        THEN Result("SolutionHashMismatch", L)
        ELSE IF requires_oracle(L.bounties[b].description)
                /\ oracle \in {"None", "Empty"}
             THEN Result("OracleVerificationFailed", L)
        ELSE IF reputation.agent = DefaultPubkey
             THEN Result(Ok, [L1 EXCEPT !.reputations = Put(@, agent,
                        [agent |-> agent, score |-> 0,
                         successful_bounties |-> 0, failed_bounties |-> 0,
                         total_earned |-> 0])])
        ELSE IF reputation.agent # agent
             THEN Result("ReputationOwnerMismatch", L1)
        ELSE IF reputation.score + 1 > U64Max
             THEN Result("ReputationScoreOverflow", L1)
        ELSE Result(Ok, [L1 EXCEPT !.reputations =
                        Put(@, agent, [reputation EXCEPT !.score = @ + 1])])

\* submit_solution advancing the status without storing the hash
submit_solution_NoHash(L, agent, b, att, oracle, solution_hash) ==
    LET L1 == [L EXCEPT !.bounties[b].status = "Submitted"]
        reputation == LoadReputation(L, agent)
    IN  IF L.attestations[att].solution_hash # solution_hash
        THEN Result("SolutionHashMismatch", L)
        ELSE IF requires_oracle(L.bounties[b].description)
                /\ oracle \in {"None", "Empty"}
             THEN Result("OracleVerificationFailed", L)
        ELSE IF reputation.agent = DefaultPubkey
             THEN Result(Ok, [L1 EXCEPT !.reputations = Put(@, agent,
                        [agent |-> agent, score |-> 1,
                         successful_bounties |-> 0, failed_bounties |-> 0,
                         total_earned |-> 0])])
        ELSE IF reputation.agent # agent
             THEN Result("ReputationOwnerMismatch", L1)
        ELSE IF reputation.score + 1 > U64Max
             THEN Result("ReputationScoreOverflow", L1)
        ELSE Result(Ok, [L1 EXCEPT !.reputations =
                        Put(@, agent, [reputation EXCEPT !.score = @ + 1])])

\* submit_solution consuming the attestation: it marks the record verified
\* and rejects a record that is marked
submit_solution_Consume(L, agent, b, att, oracle, solution_hash) ==
    LET L1 == [L EXCEPT !.bounties[b].solution_hash = Some(solution_hash),
                        !.bounties[b].status = "Submitted",
                        !.attestations[att].verified = TRUE]
        reputation == LoadReputation(L, agent)
    IN  IF L.attestations[att].solution_hash # solution_hash
           \/ L.attestations[att].verified
        THEN Result("SolutionHashMismatch", L)
        ELSE IF requires_oracle(L.bounties[b].description)
                /\ oracle \in {"None", "Empty"}
             THEN Result("OracleVerificationFailed", L)
        ELSE IF reputation.agent = DefaultPubkey
             THEN Result(Ok, [L1 EXCEPT !.reputations = Put(@, agent,
                        [agent |-> agent, score |-> 1,
                         successful_bounties |-> 0, failed_bounties |-> 0,
                         total_earned |-> 0])])
        ELSE IF reputation.agent # agent
             THEN Result("ReputationOwnerMismatch", L1)
        ELSE IF reputation.score + 1 > U64Max
             THEN Result("ReputationScoreOverflow", L1)
        ELSE Result(Ok, [L1 EXCEPT !.reputations =
                        Put(@, agent, [reputation EXCEPT !.score = @ + 1])])

\* submit_solution leaving the score of an existing record as it is
submit_solution_NoIncrement(L, agent, b, att, oracle, solution_hash) ==
    LET L1 == [L EXCEPT !.bounties[b].solution_hash = Some(solution_hash),
                        !.bounties[b].status = "Submitted"]
        reputation == LoadReputation(L, agent)
    IN  IF L.attestations[att].solution_hash # solution_hash
        THEN Result("SolutionHashMismatch", L)
        ELSE IF requires_oracle(L.bounties[b].description)
                /\ oracle \in {"None", "Empty"}
             THEN Result("OracleVerificationFailed", L)
        ELSE IF reputation.agent = DefaultPubkey
             THEN Result(Ok, [L1 EXCEPT !.reputations = Put(@, agent,
                        [agent |-> agent, score |-> 1,
                         successful_bounties |-> 0, failed_bounties |-> 0,
                         total_earned |-> 0])])
        ELSE IF reputation.agent # agent
             THEN Result("ReputationOwnerMismatch", L1)
        ELSE Result(Ok, L1)

\* submit_solution storing the bounty's creator as owner of a new record
submit_solution_OwnerIsCreator(L, agent, b, att, oracle, solution_hash) ==
    LET L1 == [L EXCEPT !.bounties[b].solution_hash = Some(solution_hash),
                        !.bounties[b].status = "Submitted"]
        reputation == LoadReputation(L, agent)
    IN  IF L.attestations[att].solution_hash # solution_hash
        THEN Result("SolutionHashMismatch", L)
        ELSE IF requires_oracle(L.bounties[b].description)
                /\ oracle \in {"None", "Empty"}
             THEN Result("OracleVerificationFailed", L)
        ELSE IF reputation.agent = DefaultPubkey
             THEN Result(Ok, [L1 EXCEPT !.reputations = Put(@, agent,
                        [agent |-> L.bounties[b].creator, score |-> 1,
                         successful_bounties |-> 0, failed_bounties |-> 0,
                         total_earned |-> 0])])
        ELSE IF reputation.agent # agent
             THEN Result("ReputationOwnerMismatch", L1)
        ELSE IF reputation.score + 1 > U64Max
             THEN Result("ReputationScoreOverflow", L1)
        ELSE Result(Ok, [L1 EXCEPT !.reputations =
                        Put(@, agent, [reputation EXCEPT !.score = @ + 1])])

\* submit_solution adding to the score with wrapping arithmetic
submit_solution_WrappingAdd(L, agent, b, att, oracle, solution_hash) ==
    LET L1 == [L EXCEPT !.bounties[b].solution_hash = Some(solution_hash),
                        !.bounties[b].status = "Submitted"]
        reputation == LoadReputation(L, agent)
    IN  IF L.attestations[att].solution_hash # solution_hash
        THEN Result("SolutionHashMismatch", L)
        ELSE IF requires_oracle(L.bounties[b].description)
                /\ oracle \in {"None", "Empty"}
             THEN Result("OracleVerificationFailed", L)
        ELSE IF reputation.agent = DefaultPubkey
             THEN Result(Ok, [L1 EXCEPT !.reputations = Put(@, agent,
                        [agent |-> agent, score |-> 1,
                         successful_bounties |-> 0, failed_bounties |-> 0,
                         total_earned |-> 0])])
        ELSE IF reputation.agent # agent
             THEN Result("ReputationOwnerMismatch", L1)
        ELSE Result(Ok, [L1 EXCEPT !.reputations =
                        Put(@, agent, [reputation EXCEPT
                                          !.score = (@ + 1) % (U64Max + 1)])])

\* submit_solution testing the oracle account before comparing the hashes
submit_solution_OracleFirst(L, agent, b, att, oracle, solution_hash) ==
    LET L1 == [L EXCEPT !.bounties[b].solution_hash = Some(solution_hash),
                        !.bounties[b].status = "Submitted"]
        reputation == LoadReputation(L, agent)
    IN  IF requires_oracle(L.bounties[b].description)
           /\ oracle \in {"None", "Empty"}
        THEN Result("OracleVerificationFailed", L)
        ELSE IF L.attestations[att].solution_hash # solution_hash
             THEN Result("SolutionHashMismatch", L)
        ELSE IF reputation.agent = DefaultPubkey
             THEN Result(Ok, [L1 EXCEPT !.reputations = Put(@, agent,
                        [agent |-> agent, score |-> 1,
                         successful_bounties |-> 0, failed_bounties |-> 0,
                         total_earned |-> 0])])
        ELSE IF reputation.agent # agent
             THEN Result("ReputationOwnerMismatch", L1)
        ELSE IF reputation.score + 1 > U64Max
             THEN Result("ReputationScoreOverflow", L1)
        ELSE Result(Ok, [L1 EXCEPT !.reputations =
                        Put(@, agent, [reputation EXCEPT !.score = @ + 1])])

\* submit_solution accepting an oracle account that holds no data
submit_solution_NoEmptyCheck(L, agent, b, att, oracle, solution_hash) ==
    LET L1 == [L EXCEPT !.bounties[b].solution_hash = Some(solution_hash),
                        !.bounties[b].status = "Submitted"]
        reputation == LoadReputation(L, agent)
    IN  IF L.attestations[att].solution_hash # solution_hash
        THEN Result("SolutionHashMismatch", L)
        ELSE IF requires_oracle(L.bounties[b].description) /\ oracle = "None"
             THEN Result("OracleVerificationFailed", L)
        ELSE IF reputation.agent = DefaultPubkey
             THEN Result(Ok, [L1 EXCEPT !.reputations = Put(@, agent,
                        [agent |-> agent, score |-> 1,
                         successful_bounties |-> 0, failed_bounties |-> 0,
                         total_earned |-> 0])])
        ELSE IF reputation.agent # agent
             THEN Result("ReputationOwnerMismatch", L1)
        ELSE IF reputation.score + 1 > U64Max
             THEN Result("ReputationScoreOverflow", L1)
        ELSE Result(Ok, [L1 EXCEPT !.reputations =
                        Put(@, agent, [reputation EXCEPT !.score = @ + 1])])

submit_solution(L, agent, b, att, oracle, solution_hash) ==
    LET L1 == [L EXCEPT !.bounties[b].solution_hash = Some(solution_hash),
                        !.bounties[b].status = "Submitted"]
        reputation == LoadReputation(L, agent)
    IN  IF L.attestations[att].solution_hash # solution_hash
        THEN Result("SolutionHashMismatch", L)
        ELSE IF requires_oracle(L.bounties[b].description) /\ oracle = "None"
             THEN Result("OracleVerificationFailed", L)
        ELSE IF requires_oracle(L.bounties[b].description) /\ oracle = "Empty"
             THEN Result("OracleVerificationFailed", L)
        ELSE IF reputation.agent = DefaultPubkey
             THEN Result(Ok, [L1 EXCEPT !.reputations = Put(@, agent,
                        [agent |-> agent, score |-> 1,
                         successful_bounties |-> 0, failed_bounties |-> 0,
                         total_earned |-> 0])])
        ELSE IF reputation.agent # agent
             THEN Result("ReputationOwnerMismatch", L1)
        ELSE IF reputation.score + 1 > U64Max
             THEN Result("ReputationScoreOverflow", L1)
        ELSE Result(Ok, [L1 EXCEPT !.reputations =
                        Put(@, agent, [reputation EXCEPT !.score = @ + 1])])

(***************************************************************************)
(* attest_solution (instructions/attest_solution.rs): creates the          *)
(* Attestation of a solution id, bound to the signer; an existing          *)
(* Attestation is never rewritten.                                         *)
(***************************************************************************)
attest_solution(L, agent, solution_id, solution_hash) ==
    IF solution_id \in DOMAIN L.attestations
    THEN Result("AccountAlreadyInUse", L)
    ELSE Result(Ok, [L EXCEPT !.attestations = Put(@, solution_id,
                        [solution_id |-> solution_id,
                         solution_hash |-> solution_hash,
                         agent |-> agent,
                         verified |-> FALSE])])

(***************************************************************************)
(* settle_bounty (instructions/settle_bounty.rs).  The call names the      *)
(* agent whose reputation record is credited and whose token account is    *)
(* paid; winner is the agent who submitted the bounty's solution.          *)
(***************************************************************************)
\* settle_bounty without the comparison of signer and creator
settle_bounty_AnySigner(L, winner, signer, b, agent) ==
    IF b \notin DOMAIN L.bounties THEN Result("AccountNotInitialized", L)
    ELSE IF L.bounties[b].status # "Submitted"
         THEN Result("BountyNotSubmitted", L)
    ELSE IF agent \notin DOMAIN L.reputations
            \/ LoadReputation(L, agent).agent # winner
         THEN Result("ReputationOwnerMismatch", L)
    ELSE IF \/ L.reputations[agent].successful_bounties + 1 > U64Max
            \/ L.reputations[agent].total_earned + L.bounties[b].reward > U64Max
         THEN Result("ReputationOverflow", L)
    ELSE LET escrow == get_associated_token_address(b)
             paid == transfer(L, escrow, wallet(agent), L.tokens[escrow])
         IN  Result(paid.err,
                 [paid.ledger EXCEPT
                     !.bounties[b].status = "Settled",
                     !.reputations[agent].successful_bounties = @ + 1,
                     !.reputations[agent].total_earned =
                         @ + L.bounties[b].reward])

\* settle_bounty crediting whichever initialized reputation record is named
settle_bounty_AnyAgent(L, winner, signer, b, agent) ==
    IF b \notin DOMAIN L.bounties THEN Result("AccountNotInitialized", L)
    ELSE IF L.bounties[b].status # "Submitted"
         THEN Result("BountyNotSubmitted", L)
    ELSE IF signer # L.bounties[b].creator
         THEN Result("UnauthorizedSettlement", L)
    ELSE IF agent \notin DOMAIN L.reputations
         THEN Result("ReputationOwnerMismatch", L)
    ELSE IF \/ L.reputations[agent].successful_bounties + 1 > U64Max
            \/ L.reputations[agent].total_earned + L.bounties[b].reward > U64Max
         THEN Result("ReputationOverflow", L)
    ELSE LET escrow == get_associated_token_address(b)
             paid == transfer(L, escrow, wallet(agent), L.tokens[escrow])
         IN  Result(paid.err,
                 [paid.ledger EXCEPT
                     !.bounties[b].status = "Settled",
                     !.reputations[agent].successful_bounties = @ + 1,
                     !.reputations[agent].total_earned =
                         @ + L.bounties[b].reward])

\* settle_bounty counting the bounty but not its reward
settle_bounty_NoEarning(L, winner, signer, b, agent) ==
    IF b \notin DOMAIN L.bounties THEN Result("AccountNotInitialized", L)
    ELSE IF L.bounties[b].status # "Submitted"
         THEN Result("BountyNotSubmitted", L)
    ELSE IF signer # L.bounties[b].creator
         THEN Result("UnauthorizedSettlement", L)
    ELSE IF agent \notin DOMAIN L.reputations
            \/ LoadReputation(L, agent).agent # winner
         THEN Result("ReputationOwnerMismatch", L)
    ELSE IF L.reputations[agent].successful_bounties + 1 > U64Max
         THEN Result("ReputationOverflow", L)
    ELSE LET escrow == get_associated_token_address(b)
             paid == transfer(L, escrow, wallet(agent), L.tokens[escrow])
         IN  Result(paid.err,
                 [paid.ledger EXCEPT
                     !.bounties[b].status = "Settled",
                     !.reputations[agent].successful_bounties = @ + 1])

settle_bounty(L, winner, signer, b, agent) ==
    IF b \notin DOMAIN L.bounties THEN Result("AccountNotInitialized", L)
    ELSE IF L.bounties[b].status # "Submitted"
         THEN Result("BountyNotSubmitted", L)
    ELSE IF signer # L.bounties[b].creator
         THEN Result("UnauthorizedSettlement", L)
    ELSE IF agent \notin DOMAIN L.reputations
            \/ LoadReputation(L, agent).agent # winner
         THEN Result("ReputationOwnerMismatch", L)
    ELSE IF \/ L.reputations[agent].successful_bounties + 1 > U64Max
            \/ L.reputations[agent].total_earned + L.bounties[b].reward > U64Max
         THEN Result("ReputationOverflow", L)
    ELSE LET escrow == get_associated_token_address(b)
             paid == transfer(L, escrow, wallet(agent), L.tokens[escrow])
         IN  Result(paid.err,
                 [paid.ledger EXCEPT
                     !.bounties[b].status = "Settled",
                     !.reputations[agent].successful_bounties = @ + 1,
                     !.reputations[agent].total_earned =
                         @ + L.bounties[b].reward])

(***************************************************************************)
(* Transactions.  The runtime keeps a transaction's writes only when the   *)
(* instruction returned Ok.                                                *)
(***************************************************************************)
\* a runtime keeping the handler's writes whatever it returned
Commit_KeepWrites(r, L) == r.ledger

Commit(r, L) == IF r.err = Ok THEN r.ledger ELSE L

\* run the handler only when the account constraints passed
Guarded(e, r, L) == IF e = Ok THEN r ELSE Result(e, L)

Apply(L) ==
    /\ bounties' = L.bounties
    /\ attestations' = L.attestations
    /\ reputations' = L.reputations
    /\ tokens' = L.tokens

Outcome(op, e) == [op |-> op, err |-> e]

\* a committed transaction: the instruction, its signer, and the bounty and
\* the hash it was about (0 and "-" where it has none)
Event(op, key, bounty, hash) ==
    [op |-> op, key |-> key, bounty |-> bounty, hash |-> hash]

Record(r, e) == done' = IF r.err = Ok THEN done \cup {e} ELSE done

(***************************************************************************)
(* The four instructions of the program (lib.rs): the account constraints, *)
(* then the handler.                                                       *)
(***************************************************************************)
PostBountyTx(creator, token_owner, bounty_id, bounty_type, description, reward, escrow) ==
    Guarded(PostBountyAccounts(Ledger, creator, bounty_id, token_owner),
            post_bounty(Ledger, creator, bounty_id, bounty_type, description,
                        reward, escrow),
            Ledger)

AttestSolutionTx(agent, solution_id, solution_hash) ==
    attest_solution(Ledger, agent, solution_id, solution_hash)

SubmitSolutionTx(agent, b, att, oracle, solution_hash) ==
    Guarded(SubmitSolutionAccounts(Ledger, agent, b, att),
            submit_solution(Ledger, agent, b, att, oracle, solution_hash),
            Ledger)

\* the agent who submitted the solution of bounty b
Winner(b) ==
    IF b \in DOMAIN accepted THEN accepted[b][Len(accepted[b])]
    ELSE DefaultPubkey

SettleBountyTx(signer, b, agent) ==
    settle_bounty(Ledger, Winner(b), signer, b, agent)

Init ==
    /\ bounties = << >>
    /\ attestations = << >>
    /\ reputations = << >>
    /\ tokens = [a \in {wallet(k) : k \in Keys} |-> InitWallets[a[2]]]
    /\ accepted = << >>
    /\ done = {}
    /\ res = Outcome("none", Ok)

\* the associated-token program creates the (empty) escrow account of a
\* bounty address; the creator does this before posting the bounty
CreateEscrow(b) ==
    /\ get_associated_token_address(b) \notin DOMAIN tokens
    /\ tokens' = Put(tokens, get_associated_token_address(b), 0)
    /\ res' = Outcome("create_escrow", Ok)
    /\ UNCHANGED <<bounties, attestations, reputations, accepted, done>>

PostBounty(creator, token_owner, bounty_id, bounty_type, description, reward, escrow) ==
    LET r == PostBountyTx(creator, token_owner, bounty_id, bounty_type,
                          description, reward, escrow)
    IN  /\ Apply(Commit(r, Ledger))
        /\ res' = Outcome("post_bounty", r.err)
        /\ Record(r, Event("post_bounty", creator, bounty_id, "-"))
        /\ UNCHANGED accepted

AttestSolution(agent, solution_id, solution_hash) ==
    LET r == AttestSolutionTx(agent, solution_id, solution_hash)
    IN  /\ Apply(Commit(r, Ledger))
        /\ res' = Outcome("attest_solution", r.err)
        /\ Record(r, Event("attest_solution", agent, 0, solution_hash))
        /\ UNCHANGED accepted

SubmitSolution(agent, b, att, oracle, solution_hash) ==
    LET r == SubmitSolutionTx(agent, b, att, oracle, solution_hash)
    IN  /\ Apply(Commit(r, Ledger))
        /\ res' = Outcome("submit_solution", r.err)
        /\ Record(r, Event("submit_solution", agent, b, solution_hash))
        /\ accepted' =
              IF r.err # Ok THEN accepted
              ELSE IF b \in DOMAIN accepted
                   THEN [accepted EXCEPT ![b] = Append(@, agent)]
              ELSE Put(accepted, b, <<agent>>)

SettleBounty(signer, b, agent) ==
    LET r == SettleBountyTx(signer, b, agent)
    IN  /\ Apply(Commit(r, Ledger))
        /\ res' = Outcome("settle_bounty", r.err)
        /\ Record(r, Event("settle_bounty", signer, b, "-"))
        /\ UNCHANGED accepted

\* the transactions over the inputs of universe U
NextIn(U) ==
    \/ \E b \in U.bounty_ids : CreateEscrow(b)
    \/ \E creator \in U.creators, token_owner \in U.creators,
          bounty_id \in U.bounty_ids, bounty_type \in U.bounty_types,
          description \in U.descriptions, reward \in U.rewards,
          escrow \in {get_associated_token_address(b) : b \in U.bounty_ids} :
          PostBounty(creator, token_owner, bounty_id, bounty_type,
                     description, reward, escrow)
    \/ \E agent \in U.agents, solution_id \in U.solution_ids,
          h \in U.hashes :
          AttestSolution(agent, solution_id, h)
    \/ \E agent \in U.agents, b \in U.bounty_ids, att \in U.solution_ids,
          oracle \in U.oracles, h \in U.hashes :
          SubmitSolution(agent, b, att, oracle, h)
    \/ \E signer \in U.creators, b \in U.bounty_ids, agent \in U.agents :
          SettleBounty(signer, b, agent)

\* two keys, two hashes, bounties without a trigger term
General ==
    [creators |-> Keys, agents |-> Keys,
     bounty_ids |-> BountyIds, solution_ids |-> SolutionIds,
     hashes |-> Hashes, bounty_types |-> {"WalletIntelligence"},
     descriptions |-> {DescScan}, rewards |-> Rewards,
     oracles |-> {"None"}]

Next == NextIn(General)

Spec == Init /\ [][Next]_vars

\* one bounty whose description may hold a trigger term, submitted with every
\* kind of oracle reference
Gated ==
    [creators |-> Keys, agents |-> Keys,
     bounty_ids |-> {1}, solution_ids |-> {1},
     hashes |-> Hashes, bounty_types |-> {"TokenScreening"},
     descriptions |-> Descriptions, rewards |-> {1},
     oracles |-> OracleRefs]

NextOracle == NextIn(Gated)

SpecOracle == Init /\ [][NextOracle]_vars

\* one more bounty than the largest score, all posted and settled by one
\* creator, who also competes as an agent and so gets its reward back
ManyBounties == 1..(U64Max + 1)

Deep ==
    [creators |-> {"k1"}, agents |-> {"k1"},
     bounty_ids |-> ManyBounties, solution_ids |-> {1},
     hashes |-> {"H1"}, bounty_types |-> {"WalletIntelligence"},
     descriptions |-> {DescPrice}, rewards |-> {0, U64Max - 1},
     oracles |-> {"None", "Data"}]

NextDeep == NextIn(Deep)

SpecDeep == Init /\ [][NextDeep]_vars

(***************************************************************************)
(* Properties.                                                             *)
(***************************************************************************)
StatusOf(bs, b) == IF b \in DOMAIN bs THEN bs[b].status ELSE "NoAccount"

\* C1: in every step, a bounty's status changes only from Open to Submitted,
\* by a successful SubmitSolution, or from Submitted to Settled, by a
\* successful SettleBounty (a new bounty starts Open, by PostBounty); it never
\* moves backward and never goes from Open to Settled.
C1_StatusSteps ==
    [][\A b \in BountyIds :
         StatusOf(bounties', b) # StatusOf(bounties, b) =>
            \/ /\ StatusOf(bounties, b) = "NoAccount"
               /\ StatusOf(bounties', b) = "Open"
               /\ res' = Outcome("post_bounty", Ok)
            \/ /\ StatusOf(bounties, b) = "Open"
               /\ StatusOf(bounties', b) = "Submitted"
               /\ res' = Outcome("submit_solution", Ok)
            \/ /\ StatusOf(bounties, b) = "Submitted"
               /\ StatusOf(bounties', b) = "Settled"
               /\ res' = Outcome("settle_bounty", Ok)]_vars

\* a bounty went through both steps, and a later call was rejected
C1_Witness ==
    /\ \E b \in DOMAIN bounties : bounties[b].status = "Settled"
    /\ \E b \in DOMAIN bounties : bounties[b].status = "Submitted"
    /\ res.err # Ok

\* C2: SubmitSolution(h) by signer s succeeds only when the Attestation's
\* hash is h and its agent is s; a call with either mismatch fails with no
\* Bounty and no Reputation record written, and a hash mismatch alone fails
\* with SolutionHashMismatch on a bounty that stays Open.
C2_SubmitNeedsAttestation ==
    \A agent \in Keys, b \in BountyIds, att \in SolutionIds,
       oracle \in OracleRefs, h \in Hashes :
       LET r == SubmitSolutionTx(agent, b, att, oracle, h)
       IN  /\ r.err = Ok =>
                 /\ att \in DOMAIN attestations
                 /\ attestations[att].solution_hash = h
                 /\ attestations[att].agent = agent
           /\ (/\ att \in DOMAIN attestations
               /\ \/ attestations[att].solution_hash # h
                  \/ attestations[att].agent # agent) =>
                 /\ r.err # Ok
                 /\ r.ledger.bounties = bounties
                 /\ r.ledger.reputations = reputations
           /\ (/\ SubmitSolutionAccounts(Ledger, agent, b, att) = Ok
               /\ attestations[att].solution_hash # h) =>
                 /\ r.err = "SolutionHashMismatch"
                 /\ Commit(r, Ledger).bounties[b].status = "Open"

\* a SubmitSolution was rejected for its hash while a bounty is Open and the
\* signer holds an attestation
C2_Witness ==
    /\ res = Outcome("submit_solution", "SolutionHashMismatch")
    /\ \E b \in DOMAIN bounties : bounties[b].status = "Open"
    /\ \E b \in DOMAIN bounties : bounties[b].status = "Submitted"

\* the balance of bounty b's escrow account, -1 while it is not initialized
EscrowOf(tk, b) ==
    IF get_associated_token_address(b) \in DOMAIN tk
    THEN tk[get_associated_token_address(b)]
    ELSE -1

\* C3: every bounty that is Open or Submitted has an escrow balance equal to
\* its reward (so no bounty record exists with an unfunded escrow): a
\* successful PostBounty leaves the escrow at the reward, and AttestSolution
\* and SubmitSolution never change a token balance.
C3_EscrowFunded ==
    /\ \A b \in DOMAIN bounties :
          bounties[b].status \in {"Open", "Submitted"} =>
              EscrowOf(tokens, b) = bounties[b].reward
    /\ \A creator \in Keys, token_owner \in Keys, bounty_id \in BountyIds,
          bounty_type \in BountyTypes, reward \in Rewards,
          escrow \in EscrowAddrs :
          LET r == PostBountyTx(creator, token_owner, bounty_id, bounty_type,
                                DescScan, reward, escrow)
          IN  r.err = Ok => EscrowOf(r.ledger.tokens, bounty_id) = reward
    /\ \A agent \in Keys, solution_id \in SolutionIds, h \in Hashes :
          AttestSolutionTx(agent, solution_id, h).ledger.tokens = tokens
    /\ \A agent \in Keys, b \in BountyIds, att \in SolutionIds,
          oracle \in OracleRefs, h \in Hashes :
          SubmitSolutionTx(agent, b, att, oracle, h).ledger.tokens = tokens

\* two funded bounties, one Open and one that a SubmitSolution has just made
\* Submitted
C3_Witness ==
    /\ res = Outcome("submit_solution", Ok)
    /\ \E b \in DOMAIN bounties :
          /\ bounties[b].status = "Submitted"
          /\ bounties[b].reward > 0
          /\ EscrowOf(tokens, b) = bounties[b].reward
    /\ \E b \in DOMAIN bounties :
          /\ bounties[b].status = "Open"
          /\ bounties[b].reward > 0

\* C4: SettleBounty succeeds only when the signer is the bounty's creator and
\* the status is Submitted; on a Submitted bounty any other signer gets
\* UnauthorizedSettlement, on an Open or an already Settled bounty every call
\* gets BountyNotSubmitted; a failed call has written no bounty, no token
\* balance and no reputation record.
C4_SettleGuards ==
    \A signer \in Keys, b \in BountyIds, agent \in Keys :
       LET r == SettleBountyTx(signer, b, agent)
       IN  /\ r.err = Ok =>
                 /\ b \in DOMAIN bounties
                 /\ bounties[b].status = "Submitted"
                 /\ signer = bounties[b].creator
           /\ (/\ StatusOf(bounties, b) = "Submitted"
               /\ signer # bounties[b].creator) =>
                 r.err = "UnauthorizedSettlement"
           /\ StatusOf(bounties, b) \in {"Open", "Settled"} =>
                 r.err = "BountyNotSubmitted"
           /\ r.err # Ok => r.ledger = Ledger

\* a SettleBounty on a Settled bounty was rejected (every bounty is Settled)
C4_Witness ==
    /\ res = Outcome("settle_bounty", "BountyNotSubmitted")
    /\ \A b \in BountyIds : StatusOf(bounties, b) = "Settled"

\* the rise of key k's reputation counters and wallet from one ledger to the
\* next
Gained(reps, reps2, tk, tk2, k) ==
    \/ tk2[wallet(k)] > tk[wallet(k)]
    \/ /\ k \in DOMAIN reps2
       /\ k \in DOMAIN reps
       /\ \/ reps2[k].successful_bounties > reps[k].successful_bounties
          \/ reps2[k].total_earned > reps[k].total_earned

\* the ledgers PostBounty, AttestSolution and SubmitSolution can leave
NonSettleSuccessors ==
    {Commit(PostBountyTx(creator, token_owner, bounty_id, bounty_type,
                         description, reward, escrow), Ledger) :
        creator \in Keys, token_owner \in Keys, bounty_id \in BountyIds,
        bounty_type \in BountyTypes, description \in {DescScan},
        reward \in Rewards, escrow \in EscrowAddrs}
    \cup {Commit(AttestSolutionTx(agent, solution_id, h), Ledger) :
            agent \in Keys, solution_id \in SolutionIds, h \in Hashes}
    \cup {Commit(SubmitSolutionTx(agent, b, att, oracle, h), Ledger) :
            agent \in Keys, b \in BountyIds, att \in SolutionIds,
            oracle \in OracleRefs, h \in Hashes}

\* C5: a SettleBounty that passes the status and creator checks succeeds only
\* when the agent it names is the one whose SubmitSolution the bounty
\* accepted, and fails with ReputationOwnerMismatch for any other agent; the
\* only transaction that raises a token balance, successful_bounties or
\* total_earned of an agent is a SettleBounty of a bounty that agent submitted.
C5_OnlySubmitterPaid ==
    /\ \A signer \in Keys, b \in BountyIds, agent \in Keys :
          LET r == SettleBountyTx(signer, b, agent)
              L2 == Commit(r, Ledger)
          IN  /\ r.err = Ok => agent = Winner(b) /\ accepted[b] = <<agent>>
              /\ (/\ StatusOf(bounties, b) = "Submitted"
                  /\ signer = bounties[b].creator
                  /\ agent # Winner(b)) =>
                    r.err = "ReputationOwnerMismatch"
              /\ \A k \in Keys :
                    Gained(reputations, L2.reputations, tokens, L2.tokens, k)
                       => r.err = Ok /\ accepted[b] = <<k>>
    /\ \A L2 \in NonSettleSuccessors : \A k \in Keys :
          ~Gained(reputations, L2.reputations, tokens, L2.tokens, k)

\* a SettleBounty naming an agent with a reputation record of its own, who
\* did not submit the only Submitted bounty, was rejected
C5_Witness ==
    /\ res = Outcome("settle_bounty", "ReputationOwnerMismatch")
    /\ \A k \in Keys : k \in DOMAIN reputations
    /\ \E b \in DOMAIN bounties : bounties[b].status = "Submitted"
    /\ \E b \in DOMAIN bounties : bounties[b].status = "Settled"

\* the bounties whose accepted solution was submitted by k
SubmittedBy(k) == {b \in DOMAIN accepted : accepted[b][1] = k}

\* C6: a successful SettleBounty of bounty b (reward r, submitted by A) moves
\* the whole escrow balance to A's token account, sets the status to Settled,
\* adds 1 to A's successful_bounties and r to A's total_earned and leaves A's
\* score as it was; so an agent whose single submission was settled has
\* score 1, successful_bounties 1, total_earned r, and that escrow is empty.
C6_SettleEffects ==
    /\ \A signer \in Keys, b \in BountyIds, agent \in Keys :
          LET r == SettleBountyTx(signer, b, agent)
              e == get_associated_token_address(b)
              A == Winner(b)
          IN  r.err = Ok =>
                /\ r.ledger.tokens[e] = 0
                /\ r.ledger.tokens[wallet(A)] = tokens[wallet(A)] + tokens[e]
                /\ tokens[e] = bounties[b].reward
                /\ r.ledger.bounties[b].status = "Settled"
                /\ r.ledger.reputations[A] =
                      [reputations[A] EXCEPT
                          !.successful_bounties = @ + 1,
                          !.total_earned = @ + bounties[b].reward]
                /\ r.ledger.reputations[A].score = reputations[A].score
    /\ \A k \in Keys :
          (\E b \in BountyIds :
              SubmittedBy(k) = {b} /\ bounties[b].status = "Settled") =>
             LET b == CHOOSE x \in SubmittedBy(k) : TRUE
             IN  /\ reputations[k] =
                      [agent |-> k, score |-> 1, successful_bounties |-> 1,
                       failed_bounties |-> 0,
                       total_earned |-> bounties[b].reward]
                 /\ EscrowOf(tokens, b) = 0

\* create (reward 1), attest, submit, settle has just finished
C6_Witness ==
    /\ res = Outcome("settle_bounty", Ok)
    /\ \E k \in Keys, b \in DOMAIN bounties :
          /\ SubmittedBy(k) = {b}
          /\ bounties[b].status = "Settled"
          /\ bounties[b].reward = 1
          /\ bounties[b].creator # k
          /\ reputations[k].total_earned = 1
          /\ reputations[k].successful_bounties = 1
          /\ tokens[wallet(k)] = InitWallets[k] + 1

\* C7: a Settled bounty has an empty escrow and takes no further change:
\* every SubmitSolution and SettleBounty on it fails, no step changes its
\* record or its escrow, and each successful SettleBounty empties the escrow
\* of exactly one bounty that was Submitted (so at most once per bounty).
C7_SettledIsFinal ==
    /\ [](\A b \in DOMAIN bounties :
            bounties[b].status = "Settled" =>
               /\ EscrowOf(tokens, b) = 0
               /\ \A agent \in Keys, att \in SolutionIds,
                     oracle \in OracleRefs, h \in Hashes :
                     SubmitSolutionTx(agent, b, att, oracle, h).err # Ok
               /\ \A signer \in Keys, agent \in Keys :
                     SettleBountyTx(signer, b, agent).err # Ok)
    /\ [][\A b \in DOMAIN bounties :
            bounties[b].status = "Settled" =>
               /\ bounties'[b] = bounties[b]
               /\ EscrowOf(tokens', b) = 0]_vars
    /\ [][res' = Outcome("settle_bounty", Ok) =>
            \E b \in DOMAIN bounties :
               /\ bounties[b].status = "Submitted"
               /\ bounties'[b].status = "Settled"
               /\ EscrowOf(tokens, b) = bounties[b].reward
               /\ EscrowOf(tokens', b) = 0
               /\ \A c \in DOMAIN bounties \ {b} :
                     /\ bounties'[c] = bounties[c]
                     /\ EscrowOf(tokens', c) = EscrowOf(tokens, c)]_vars

\* every bounty is Settled, with a reward paid out, and a SubmitSolution by
\* the holder of an attestation was rejected
C7_Witness ==
    /\ res = Outcome("submit_solution", "BountyNotOpen")
    /\ \A b \in BountyIds :
          /\ StatusOf(bounties, b) = "Settled"
          /\ bounties[b].reward > 0
    /\ DOMAIN attestations = SolutionIds

\* C8: a successful SubmitSolution by agent s creates s's Reputation record
\* with score 1 and all counters 0 when s has none, adds exactly 1 to the
\* score of an existing record and changes nothing else in it, and leaves the
\* record of every other agent as it was.
C8_ScoreSteps ==
    \A agent \in Keys, b \in BountyIds, att \in SolutionIds,
       oracle \in OracleRefs, h \in Hashes :
       LET r == SubmitSolutionTx(agent, b, att, oracle, h)
           after == r.ledger.reputations
       IN  r.err = Ok =>
             /\ agent \notin DOMAIN reputations =>
                   after[agent] =
                      [agent |-> agent, score |-> 1,
                       successful_bounties |-> 0,
                       failed_bounties |-> 0, total_earned |-> 0]
             /\ agent \in DOMAIN reputations =>
                   after[agent] =
                      [reputations[agent] EXCEPT !.score = @ + 1]
             /\ DOMAIN after = (DOMAIN reputations) \cup {agent}
             /\ \A k \in (DOMAIN reputations) \ {agent} :
                   after[k] = reputations[k]

\* an agent's second SubmitSolution has just raised its score from 1 to 2
C8_Witness ==
    /\ res = Outcome("submit_solution", Ok)
    /\ \E k \in DOMAIN reputations :
          /\ reputations[k].score = 2
          /\ Cardinality(SubmittedBy(k)) = 2
          /\ \A j \in Keys \ {k} : j \notin DOMAIN reputations

\* C9: whatever the order in which SubmitSolution transactions on one bounty
\* are executed, at most one of them commits: the one that finds the bounty
\* Open with no solution hash; from then on every SubmitSolution on that
\* bounty is rejected with nothing written, so the stored hash stays and no
\* other signer's reputation is touched.
C9_OneSubmissionWins ==
    /\ \A b \in DOMAIN accepted :
          /\ Len(accepted[b]) = 1
          /\ bounties[b].solution_hash # NoneHash
    /\ \A agent \in Keys, b \in BountyIds, att \in SolutionIds,
          oracle \in OracleRefs, h \in Hashes :
          LET r == SubmitSolutionTx(agent, b, att, oracle, h)
          IN  /\ r.err = Ok =>
                    /\ bounties[b].solution_hash = NoneHash
                    /\ bounties[b].status = "Open"
                    /\ b \notin DOMAIN accepted
              /\ (b \in DOMAIN bounties
                  /\ bounties[b].solution_hash # NoneHash) =>
                    /\ r.err \in {"AccountNotInitialized", "BountyNotOpen",
                                  "BountyAlreadySubmitted"}
                    /\ r.ledger = Ledger

\* two agents hold an attestation for the only bounty; one SubmitSolution
\* committed, a later one was rejected, and the other agent has no
\* reputation record
C9_Witness ==
    /\ res = Outcome("submit_solution", "BountyNotOpen")
    /\ \E b \in BountyIds, k \in Keys :
          /\ DOMAIN bounties = {b}
          /\ bounties[b].status = "Submitted"
          /\ accepted[b] = <<k>>
          /\ DOMAIN reputations = {k}
          /\ \E j \in Keys \ {k}, att \in DOMAIN attestations :
                /\ attestations[att].agent = j
                /\ attestations[att].solution_hash # bounties[b].solution_hash[1]

\* the ledgers SettleBounty can leave
SettleSuccessors ==
    {Commit(SettleBountyTx(signer, b, agent), Ledger) :
        signer \in Keys, b \in BountyIds, agent \in Keys}

\* C10: a bounty's solution_hash is absent exactly while its status is Open
\* and is one hash once Submitted or Settled; a successful SubmitSolution(h)
\* stores h, and no transaction changes or clears a stored hash.
C10_HashFollowsStatus ==
    /\ \A b \in DOMAIN bounties :
          /\ bounties[b].solution_hash = NoneHash <=>
                bounties[b].status = "Open"
          /\ bounties[b].status \in {"Submitted", "Settled"} =>
                \E h \in Hashes : bounties[b].solution_hash = Some(h)
    /\ \A agent \in Keys, b \in BountyIds, att \in SolutionIds,
          oracle \in OracleRefs, h \in Hashes :
          LET r == SubmitSolutionTx(agent, b, att, oracle, h)
          IN  r.err = Ok => r.ledger.bounties[b].solution_hash = Some(h)
    /\ \A L2 \in NonSettleSuccessors \cup SettleSuccessors :
          \A b \in DOMAIN bounties :
             bounties[b].solution_hash # NoneHash =>
                L2.bounties[b].solution_hash = bounties[b].solution_hash

\* two bounties hold different hashes, one Settled and one Submitted, after a
\* SettleBounty
C10_Witness ==
    /\ res = Outcome("settle_bounty", Ok)
    /\ \E b, c \in DOMAIN bounties :
          /\ bounties[b].status = "Settled"
          /\ bounties[c].status = "Submitted"
          /\ bounties[b].solution_hash = Some("H1")
          /\ bounties[c].solution_hash = Some("H2")

\* C11: on a bounty whose description holds "oracle", "switchboard" or
\* "price" in any letter case, SubmitSolution succeeds only with an oracle
\* account that holds data; with no oracle account or an empty one it fails
\* with nothing written (OracleVerificationFailed once the account
\* constraints and the hash comparison have passed; bounty Open, no hash, no
\* reputation change).  On a bounty without a trigger term the result is the
\* same for every oracle reference.
C11_OracleGate ==
    \A b \in DOMAIN bounties :
       LET gated == requires_oracle(bounties[b].description)
       IN  /\ gated <=> bounties[b].description
                           \in {DescPrice, DescOracle, DescSwitchboard}
           /\ \A agent \in Keys, att \in SolutionIds, h \in Hashes :
                 /\ gated =>
                       \A oracle \in OracleRefs :
                          LET r == SubmitSolutionTx(agent, b, att, oracle, h)
                          IN  /\ r.err = Ok => oracle = "Data"
                              /\ oracle \in {"None", "Empty"} =>
                                    /\ r.err # Ok
                                    /\ r.ledger = Ledger
                                    /\ (/\ SubmitSolutionAccounts(Ledger, agent, b, att) = Ok
                                        /\ attestations[att].solution_hash = h) =>
                                          /\ r.err = "OracleVerificationFailed"
                                          /\ Commit(r, Ledger).bounties[b].status = "Open"
                                          /\ Commit(r, Ledger).bounties[b].solution_hash = NoneHash
                                          /\ Commit(r, Ledger).reputations = reputations
                 /\ ~gated =>
                       \A o1 \in OracleRefs, o2 \in OracleRefs :
                          SubmitSolutionTx(agent, b, att, o1, h)
                             = SubmitSolutionTx(agent, b, att, o2, h)

\* a SubmitSolution by the holder of the attestation was rejected for its
\* oracle reference on an Open bounty that asks for a price
C11_Witness ==
    /\ res = Outcome("submit_solution", "OracleVerificationFailed")
    /\ \E b \in DOMAIN bounties :
          /\ bounties[b].description = DescPrice
          /\ bounties[b].status = "Open"
          /\ bounties[b].solution_hash = NoneHash
    /\ reputations = << >>

\* C12: the instructions commit in forward order: a SubmitSolution(h) signed
\* by A can succeed only after an AttestSolution of hash h signed by A and a
\* PostBounty of its bounty have committed, and a SettleBounty can succeed
\* only after a SubmitSolution on the same bounty has committed; so every
\* committed transaction has its predecessors among the committed ones.
C12_ForwardOrder ==
    /\ \A agent \in Keys, b \in BountyIds, att \in SolutionIds,
          oracle \in OracleRefs, h \in Hashes :
          SubmitSolutionTx(agent, b, att, oracle, h).err = Ok =>
             /\ Event("attest_solution", agent, 0, h) \in done
             /\ \E creator \in Keys :
                   Event("post_bounty", creator, b, "-") \in done
    /\ \A signer \in Keys, b \in BountyIds, agent \in Keys :
          SettleBountyTx(signer, b, agent).err = Ok =>
             \E k \in Keys, h \in Hashes :
                Event("submit_solution", k, b, h) \in done
    /\ \A e \in done :
          /\ e.op = "submit_solution" =>
                /\ Event("attest_solution", e.key, 0, e.hash) \in done
                /\ \E creator \in Keys :
                      Event("post_bounty", creator, e.bounty, "-") \in done
          /\ e.op = "settle_bounty" =>
                \E k \in Keys, h \in Hashes :
                   Event("submit_solution", k, e.bounty, h) \in done

\* a bounty went through post, submit and settle while the other key holds an
\* attestation of the other hash
C12_Witness ==
    /\ res = Outcome("settle_bounty", Ok)
    /\ \E b \in BountyIds, A \in Keys, B \in Keys, h \in Hashes, g \in Hashes :
          /\ A # B
          /\ g # h
          /\ Event("submit_solution", A, b, h) \in done
          /\ Event("settle_bounty", B, b, "-") \in done
          /\ Event("attest_solution", B, 0, g) \in done
          /\ Event("attest_solution", B, 0, h) \notin done

\* C13: a PostBounty of a new bounty id whose escrow address is not the one
\* derived from the bounty, or whose escrow account is not initialized, or
\* whose creator holds less than the reward, fails; the handler has written
\* the Bounty record by then, but the transaction leaves no Bounty record
\* with that id and every token balance as it was.
C13_FailedPostLeavesNothing ==
    \A creator \in Keys, bounty_id \in BountyIds,
       bounty_type \in BountyTypes, description \in Descriptions,
       reward \in Rewards, escrow \in EscrowAddrs :
       LET r == PostBountyTx(creator, creator, bounty_id, bounty_type,
                             description, reward, escrow)
           after == Commit(r, Ledger)
       IN  (/\ bounty_id \notin DOMAIN bounties
            /\ \/ escrow # get_associated_token_address(bounty_id)
               \/ escrow \notin DOMAIN tokens
               \/ tokens[wallet(creator)] < reward) =>
              /\ r.err = (IF escrow # get_associated_token_address(bounty_id)
                          THEN "ConstraintTokenMint"
                          ELSE IF escrow \notin DOMAIN tokens
                               THEN "AccountNotInitialized"
                          ELSE "InsufficientFunds")
              /\ bounty_id \in DOMAIN r.ledger.bounties
              /\ bounty_id \notin DOMAIN after.bounties
              /\ after.tokens = tokens
              /\ after = Ledger

\* a creator without the funds was rejected while the escrow of the new
\* bounty is initialized and empty
C13_Witness ==
    /\ res = Outcome("post_bounty", "InsufficientFunds")
    /\ \E b \in BountyIds :
          /\ b \notin DOMAIN bounties
          /\ EscrowOf(tokens, b) = 0
    /\ \E k \in Keys : tokens[wallet(k)] = 0

\* the preconditions of SubmitSolution in the order the claim gives them, and
\* the error of the first that fails
FirstFailure(agent, b, att, oracle, h) ==
    IF bounties[b].status # "Open" THEN "BountyNotOpen"
    ELSE IF bounties[b].solution_hash # NoneHash THEN "BountyAlreadySubmitted"
    ELSE IF attestations[att].agent # agent THEN "AttestationOwnerMismatch"
    ELSE IF attestations[att].solution_hash # h THEN "SolutionHashMismatch"
    ELSE IF /\ bounties[b].description
                 \in {DescPrice, DescOracle, DescSwitchboard}
            /\ oracle # "Data"
         THEN "OracleVerificationFailed"
    ELSE IF agent \in DOMAIN reputations /\ reputations[agent].agent # agent
         THEN "ReputationOwnerMismatch"
    ELSE IF agent \in DOMAIN reputations
            /\ reputations[agent].score = U64Max
         THEN "ReputationScoreOverflow"
    ELSE Ok

\* C14: SubmitSolution reports the first precondition that fails in the order
\* BountyNotOpen, BountyAlreadySubmitted, AttestationOwnerMismatch,
\* SolutionHashMismatch, OracleVerificationFailed, then the reputation checks
\* (ReputationOwnerMismatch, ReputationScoreOverflow), whatever else the call
\* violates.
C14_FirstFailureReported ==
    \A agent \in Keys, b \in DOMAIN bounties, att \in DOMAIN attestations,
       oracle \in OracleRefs, h \in Hashes :
       SubmitSolutionTx(agent, b, att, oracle, h).err
          = FirstFailure(agent, b, att, oracle, h)

\* the agent's score is at its maximum, one bounty is Open and one is not,
\* and a SubmitSolution on the latter was rejected for the bounty's status
C14_Witness ==
    /\ res = Outcome("submit_solution", "BountyNotOpen")
    /\ \E k \in DOMAIN reputations : reputations[k].score = U64Max
    /\ \E b \in DOMAIN bounties : bounties[b].status = "Open"
    /\ \E b \in DOMAIN bounties : bounties[b].status = "Settled"
    /\ attestations # << >>

\* C15: no reputation counter ever exceeds the largest u64 or wraps.  A
\* SubmitSolution that passes every earlier check for an agent whose score is
\* the largest u64 fails with ReputationScoreOverflow: the handler has set the
\* bounty's hash and status by then, but the bounty is left Open without a
\* hash and the score as it was.  A SettleBounty whose successful_bounties or
\* total_earned would pass the largest u64 fails with ReputationOverflow and
\* leaves the bounty Submitted and its escrow untouched.
C15_NoWrap ==
    /\ \A k \in DOMAIN reputations :
          /\ reputations[k].score \in 1..U64Max
          /\ reputations[k].successful_bounties \in 0..U64Max
          /\ reputations[k].total_earned \in 0..U64Max
    /\ \A agent \in Keys, b \in DOMAIN bounties, att \in DOMAIN attestations,
          oracle \in OracleRefs, h \in Hashes :
          LET r == SubmitSolutionTx(agent, b, att, oracle, h)
              after == Commit(r, Ledger)
          IN  /\ r.err = Ok =>
                    r.ledger.reputations[agent].score
                       = LoadReputation(Ledger, agent).score + 1
              /\ (/\ agent \in DOMAIN reputations
                  /\ reputations[agent].score = U64Max
                  /\ bounties[b].status = "Open"
                  /\ attestations[att].agent = agent
                  /\ attestations[att].solution_hash = h
                  /\ oracle = "Data") =>
                    /\ r.err = "ReputationScoreOverflow"
                    /\ r.ledger.bounties[b].status = "Submitted"
                    /\ r.ledger.bounties[b].solution_hash = Some(h)
                    /\ after.bounties[b].status = "Open"
                    /\ after.bounties[b].solution_hash = NoneHash
                    /\ after.reputations[agent].score = U64Max
                    /\ after = Ledger
    /\ \A signer \in Keys, b \in DOMAIN bounties, agent \in Keys :
          LET r == SettleBountyTx(signer, b, agent)
              after == Commit(r, Ledger)
          IN  /\ r.err = Ok =>
                    /\ r.ledger.reputations[agent].successful_bounties
                          = reputations[agent].successful_bounties + 1
                    /\ r.ledger.reputations[agent].total_earned
                          = reputations[agent].total_earned
                               + bounties[b].reward
              /\ (/\ bounties[b].status = "Submitted"
                  /\ signer = bounties[b].creator
                  /\ agent = Winner(b)
                  /\ \/ reputations[agent].successful_bounties = U64Max
                     \/ reputations[agent].total_earned + bounties[b].reward
                           > U64Max) =>
                    /\ r.err = "ReputationOverflow"
                    /\ after.bounties[b].status = "Submitted"
                    /\ EscrowOf(after.tokens, b) = bounties[b].reward
                    /\ after = Ledger

\* a SubmitSolution was rejected for the score, which is at its maximum,
\* while a Submitted bounty waits whose reward no longer fits total_earned
C15_Witness ==
    /\ res = Outcome("submit_solution", "ReputationScoreOverflow")
    /\ \E k \in DOMAIN reputations :
          /\ reputations[k].score = U64Max
          /\ \E b \in DOMAIN bounties :
                /\ bounties[b].status = "Submitted"
                /\ Winner(b) = k
                /\ reputations[k].total_earned + bounties[b].reward > U64Max
          /\ \E b \in DOMAIN bounties : bounties[b].status = "Open"

\* the fields of a Bounty record that PostBounty alone sets
Fixed(bounty) ==
    <<bounty.id, bounty.bounty_type, bounty.description, bounty.reward,
      bounty.creator>>

\* C16: the id, description, reward and creator of a bounty are those its
\* PostBounty gave it: no transaction, committed or failed, changes them, a
\* later PostBounty of the same id is rejected, and a successful
\* SubmitSolution changes only solution_hash and status of its bounty.
C16_FixedAtCreation ==
    /\ \A b \in DOMAIN bounties : bounties[b].id = b
    /\ \A L2 \in NonSettleSuccessors \cup SettleSuccessors :
          \A b \in DOMAIN bounties :
             /\ b \in DOMAIN L2.bounties
             /\ Fixed(L2.bounties[b]) = Fixed(bounties[b])
    /\ \A creator \in Keys, token_owner \in Keys, bounty_id \in DOMAIN bounties,
          bounty_type \in BountyTypes, description \in Descriptions,
          reward \in Rewards, escrow \in EscrowAddrs :
          LET r == PostBountyTx(creator, token_owner, bounty_id, bounty_type,
                                description, reward, escrow)
          IN  /\ r.err = "AccountAlreadyInUse"
              /\ Commit(r, Ledger) = Ledger
    /\ \A agent \in Keys, b \in BountyIds, att \in SolutionIds,
          oracle \in OracleRefs, h \in Hashes :
          LET r == SubmitSolutionTx(agent, b, att, oracle, h)
          IN  r.err = Ok =>
                 r.ledger.bounties =
                    [bounties EXCEPT ![b] =
                        [@ EXCEPT !.solution_hash = Some(h),
                                  !.status = "Submitted"]]

\* a PostBounty of an existing id was rejected; one bounty with a reward is
\* Settled, the other Submitted, and they have different creators
C16_Witness ==
    /\ res = Outcome("post_bounty", "AccountAlreadyInUse")
    /\ \E b \in DOMAIN bounties, c \in DOMAIN bounties :
          /\ bounties[b].status = "Settled"
          /\ bounties[b].reward = 1
          /\ bounties[c].status = "Submitted"
          /\ bounties[c].creator # bounties[b].creator

RECURSIVE SumOver(_, _)
\* the sum of the balances tk holds at the addresses in S
SumOver(tk, S) ==
    IF S = {} THEN 0
    ELSE LET a == CHOOSE x \in S : TRUE
         IN  tk[a] + SumOver(tk, S \ {a})

\* all tokens held by wallets and escrow accounts
Supply(tk) == SumOver(tk, DOMAIN tk)

\* C17: the tokens held by all wallets and all escrow accounts together stay
\* what they were at the start; a successful PostBounty moves exactly its
\* reward from the creator's wallet to the bounty's escrow, a successful
\* SettleBounty moves exactly the escrow's balance to the wallet of one
\* agent, and AttestSolution and SubmitSolution change no balance.
C17_FundsConserved ==
    /\ Supply(tokens) = SumOver(InitWallets, Keys)
    /\ \A a \in DOMAIN tokens : tokens[a] \in 0..U64Max
    /\ \A creator \in Keys, token_owner \in Keys, bounty_id \in BountyIds,
          bounty_type \in BountyTypes, reward \in Rewards,
          escrow \in EscrowAddrs :
          LET r == PostBountyTx(creator, token_owner, bounty_id, bounty_type,
                                DescScan, reward, escrow)
          IN  r.err = Ok =>
                 r.ledger.tokens =
                    [tokens EXCEPT
                        ![wallet(creator)] = @ - reward,
                        ![get_associated_token_address(bounty_id)] = @ + reward]
    /\ \A signer \in Keys, b \in BountyIds, agent \in Keys :
          LET r == SettleBountyTx(signer, b, agent)
              escrow == get_associated_token_address(b)
          IN  r.err = Ok =>
                 r.ledger.tokens =
                    [tokens EXCEPT ![escrow] = 0,
                                   ![wallet(agent)] = @ + tokens[escrow]]
    /\ \A agent \in Keys, solution_id \in SolutionIds, h \in Hashes :
          Commit(AttestSolutionTx(agent, solution_id, h), Ledger).tokens
             = tokens
    /\ \A agent \in Keys, b \in BountyIds, att \in SolutionIds,
          oracle \in OracleRefs, h \in Hashes :
          Commit(SubmitSolutionTx(agent, b, att, oracle, h), Ledger).tokens
             = tokens

\* a reward went from its creator through the escrow to another key, while
\* a second reward is held in escrow
C17_Witness ==
    /\ res = Outcome("settle_bounty", Ok)
    /\ \E b \in DOMAIN bounties, c \in DOMAIN bounties, k \in Keys :
          /\ bounties[b].status = "Settled"
          /\ bounties[b].reward = 1
          /\ accepted[b] = <<k>>
          /\ bounties[b].creator # k
          /\ tokens[wallet(k)] = InitWallets[k] + 1
          /\ bounties[c].status \in {"Open", "Submitted"}
          /\ EscrowOf(tokens, c) = 1

\* C18: the Reputation record at the address derived from key A names A as
\* its agent, no transaction changes the agent of an existing record or
\* removes the record, and no SubmitSolution returns ReputationOwnerMismatch.
C18_ReputationOwner ==
    /\ \A k \in DOMAIN reputations : k \in Keys /\ reputations[k].agent = k
    /\ \A L2 \in NonSettleSuccessors \cup SettleSuccessors :
          \A k \in DOMAIN reputations :
             /\ k \in DOMAIN L2.reputations
             /\ L2.reputations[k].agent = reputations[k].agent
    /\ \A agent \in Keys, b \in BountyIds, att \in SolutionIds,
          oracle \in OracleRefs, h \in Hashes :
          SubmitSolutionTx(agent, b, att, oracle, h).err
             # "ReputationOwnerMismatch"

\* a key's second SubmitSolution went through the branch for an existing
\* record; one of its bounties was posted by another key and is Settled
C18_Witness ==
    /\ res = Outcome("submit_solution", Ok)
    /\ \E k \in Keys, b \in DOMAIN accepted, c \in DOMAIN accepted :
          /\ b # c
          /\ accepted[b] = <<k>>
          /\ accepted[c] = <<k>>
          /\ bounties[b].creator # k
          /\ reputations[k].score = 2
          /\ bounties[b].status = "Settled"

\* the committed SubmitSolution transactions signed by k
SubmissionsOf(k) == {e \in done : e.op = "submit_solution" /\ e.key = k}

\* the Settled bounties whose solution k submitted
SettledFor(k) == {b \in SubmittedBy(k) : bounties[b].status = "Settled"}

RECURSIVE RewardsOf(_)
\* the sum of the rewards of the bounties in S
RewardsOf(S) ==
    IF S = {} THEN 0
    ELSE LET b == CHOOSE x \in S : TRUE
         IN  bounties[b].reward + RewardsOf(S \ {b})

\* C19: for every agent with a Reputation record, score is at least 1 and is
\* the number of SubmitSolution calls of that agent that committed,
\* successful_bounties is at most score and is the number of Settled
\* bounties the agent submitted, total_earned is the sum of the rewards of
\* those bounties, and failed_bounties is 0; an agent without a record has
\* no committed SubmitSolution.
C19_ReputationCounts ==
    \A k \in Keys :
       IF k \in DOMAIN reputations
       THEN /\ reputations[k].score >= 1
            /\ reputations[k].score = Cardinality(SubmissionsOf(k))
            /\ reputations[k].successful_bounties <= reputations[k].score
            /\ reputations[k].successful_bounties
                  = Cardinality(SettledFor(k))
            /\ reputations[k].total_earned = RewardsOf(SettledFor(k))
            /\ reputations[k].failed_bounties = 0
       ELSE SubmissionsOf(k) = {}

\* an agent submitted two bounties, of which the one with a reward has just
\* been settled
C19_Witness ==
    /\ res = Outcome("settle_bounty", Ok)
    /\ \E k \in DOMAIN reputations :
          /\ Cardinality(SubmissionsOf(k)) = 2
          /\ Cardinality(SettledFor(k)) = 1
          /\ RewardsOf(SettledFor(k)) = 1
          /\ reputations[k].score = 2
          /\ \A j \in Keys \ {k} : j \notin DOMAIN reputations

\* C20: SubmitSolution leaves every Attestation record as it was, whether it
\* succeeds or fails, and does not bind the record to a bounty: an agent
\* whose only attestation of hash h was already used for a committed
\* SubmitSolution on one bounty succeeds with it again on any other Open
\* bounty (below the largest score), and its score rises by 1 again.
C20_AttestationReusable ==
    \A agent \in Keys, b \in BountyIds, att \in SolutionIds,
       oracle \in OracleRefs, h \in Hashes :
       LET r == SubmitSolutionTx(agent, b, att, oracle, h)
       IN  /\ r.ledger.attestations = attestations
           /\ (/\ att \in DOMAIN attestations
               /\ attestations[att].agent = agent
               /\ attestations[att].solution_hash = h
               /\ \A a2 \in (DOMAIN attestations) \ {att} :
                     \/ attestations[a2].agent # agent
                     \/ attestations[a2].solution_hash # h
               /\ \E c \in BountyIds \ {b} :
                     Event("submit_solution", agent, c, h) \in done
               /\ StatusOf(bounties, b) = "Open"
               /\ ~requires_oracle(bounties[b].description)
               /\ reputations[agent].score < U64Max) =>
                 /\ r.err = Ok
                 /\ r.ledger.reputations[agent].score
                       = reputations[agent].score + 1

\* one attestation exists, and its holder's SubmitSolution with it has
\* committed on two bounties
C20_Witness ==
    /\ res = Outcome("submit_solution", Ok)
    /\ Cardinality(DOMAIN attestations) = 1
    /\ \E k \in Keys, h \in Hashes, b \in BountyIds, c \in BountyIds :
          /\ b # c
          /\ Event("submit_solution", k, b, h) \in done
          /\ Event("submit_solution", k, c, h) \in done
          /\ bounties[b].solution_hash = Some(h)
          /\ bounties[c].solution_hash = Some(h)
          /\ reputations[k].score = 2

====
